---- MODULE Spec2Model ----
(***************************************************************************)
(* Model of the two heuristic pipelines of ai_detect:                      *)
(*   backend/app/services/image_detector_enhanced.py  (v0.6, "extended")   *)
(*   backend/app/services/image_detector.py           (v0.5)               *)
(*                                                                         *)
(* Scores are Python floats that are sums of the literals 0.05 .. 0.50.    *)
(* They are represented as integers counting 1/10000, so 0.30 is 3000 and  *)
(* round(x, 3) / round(x, 2) are real roundings to multiples of 10 / 100.  *)
(* For every combination of contributions the pipelines can produce, and   *)
(* every summation order, the IEEE double sum compares with the threshold  *)
(* literals 0.20 / 0.40 / 0.70 exactly as the decimal sum does, so the     *)
(* integer comparison is the comparison the code makes.                    *)
(*                                                                         *)
(* A byte buffer is described by what the decoder finds in it: its length, *)
(* whether Image.open can parse a header, the header's width and height,   *)
(* and whether the pixel data decodes (convert("RGB")).  A decoded image   *)
(* is described by the statistics the checks measure on it.                *)
(***************************************************************************)
EXTENDS Integers, Sequences, FiniteSets, TLC

VARIABLES
    pipeline,          \* which module's analyze_image serves the request
    data,              \* the request's byte buffer
    img,               \* the decoded image (NoImage before load_image)
    pc,                \* position inside analyze_image
    pending,           \* heuristic checks of the loop not yet executed, in order
    total_score,       \* prefilter_heuristics: total_score
    all_flags,         \* prefilter_heuristics: all_flags
    scores_breakdown,  \* prefilter_heuristics: scores_breakdown
    heuristic_results, \* value returned by prefilter_heuristics
    result,            \* value returned by analyze_image
    raised,            \* an exception escaped analyze_image
    validation,        \* outcome of validate_image_data: "pending"/"accepted"/message
    decode_attempted,  \* Image.open was called by validate_image_data
    checks_run,        \* names of the heuristic checks executed in this request
    score,             \* image_detector.analyze_image: score
    warnings,          \* image_detector.analyze_image: warnings
    CONFIG,            \* image_detector_enhanced: the module-level CONFIG
    first_call,        \* per buffer already analysed: image and outcome of its first call
    calls              \* calls of analyze_image completed before the current one

vars == <<pipeline, data, img, pc, pending, total_score, all_flags,
          scores_breakdown, heuristic_results, result, raised, validation,
          decode_attempted, checks_run, score, warnings,
          CONFIG, first_call, calls>>

\* what outlives a call of analyze_image
session == <<CONFIG, first_call, calls>>

----------------------------------------------------------------------------
(* Bounds *)

\* largest number of heuristic (sub-)checks that fail internally in one request
MaxFaults == 1

\* largest number of calls of analyze_image that follow the first one
MaxCalls == 2

----------------------------------------------------------------------------
(* HeuristicConfig defaults *)

max_file_size_mb == 20
max_dimension == 8192
min_dimension == 32
extreme_sharpness_threshold == 70
extreme_smoothness_threshold == 150

known_ai_resolutions ==
    { <<512, 512>>, <<768, 768>>, <<1024, 1024>>,
      <<512, 768>>, <<768, 512>>,
      <<1024, 1536>>, <<1536, 1024>> }

\* CONFIG = HeuristicConfig()
HeuristicConfig ==
    [ max_file_size_mb |-> max_file_size_mb,
      max_dimension |-> max_dimension,
      min_dimension |-> min_dimension,
      extreme_sharpness_threshold |-> extreme_sharpness_threshold,
      extreme_smoothness_threshold |-> extreme_smoothness_threshold,
      known_ai_resolutions |-> known_ai_resolutions ]

MaxBytes == max_file_size_mb * 1024 * 1024

Min(a, b) == IF a <= b THEN a ELSE b
Max(a, b) == IF a >= b THEN a ELSE b
Abs(a) == IF a >= 0 THEN a ELSE 0 - a

\* round(x, 3) and round(x, 2) on a float held as a count of 1/10000
round3(x) == ((x + 5) \div 10) * 10
round2(x) == ((x + 50) \div 100) * 100

NoValue == "<absent>"
NoImage == [decoded |-> FALSE]

RECURSIVE SumSeq(_)
SumSeq(s) == IF s = <<>> THEN 0 ELSE Head(s) + SumSeq(Tail(s))

----------------------------------------------------------------------------
(* Inputs *)

\* widths and heights found in image headers
Dims == { 10, min_dimension - 1, min_dimension, 512,
          max_dimension, max_dimension + 1 }

\* len(b"this is not an image")
TextLen == Len(<<"t","h","i","s"," ","i","s"," ","n","o","t"," ","a","n"," ","i","m","a","g","e">>)

Lengths == { TextLen, MaxBytes, MaxBytes + 1 }

\* the empty buffer, buffers no decoder identifies, and image files (whole
\* or truncated) at and one byte over the size limit
Buffers ==
    { [len |-> 0, header |-> FALSE, w |-> 0, h |-> 0, body |-> FALSE] }
    \cup [len : Lengths, header : {FALSE}, w : {0}, h : {0}, body : {FALSE}]
    \cup [len : {MaxBytes, MaxBytes + 1}, header : {TRUE}, w : Dims, h : Dims,
          body : BOOLEAN]

\* EXIF tag ids as PIL reports them, and ExifTags.TAGS
TAGS(tag) ==
    CASE tag = 11 -> "ProcessingSoftware"
      [] tag = 271 -> "Make"
      [] tag = 272 -> "Model"
      [] tag = 305 -> "Software"
      [] OTHER -> ToString(tag)

\* str(value).lower() on the tag values of the sample files
lower(value) ==
    CASE value = "Midjourney v5" -> "midjourney v5"
      [] value = "Adobe Photoshop" -> "adobe photoshop"
      [] value = "Stable Diffusion" -> "stable diffusion"
      [] value = "DreamStudio" -> "dreamstudio"
      [] value = "Leonardo Firefly" -> "leonardo firefly"
      [] value = "Canon" -> "canon"
      [] value = "Canon EOS 5D" -> "canon eos 5d"
      [] value = "SAMSUNG" -> "samsung"
      [] value = "SONY" -> "sony"
      [] OTHER -> value

\* the words of a lower-cased tag value that the substring tests look for
Substrings(tag_value) ==
    CASE tag_value = "midjourney v5" -> {"midjourney"}
      [] tag_value = "stable diffusion" -> {"stable diffusion"}
      [] tag_value = "dreamstudio" -> {"dreamstudio"}
      [] tag_value = "leonardo firefly" -> {"leonardo", "firefly"}
      [] tag_value = "canon" -> {"canon"}
      [] tag_value = "canon eos 5d" -> {"canon"}
      [] tag_value = "sony" -> {"sony"}
      [] OTHER -> {}

\* EXIF blocks of the sample files, as exif.items() yields them
ExifSamples ==
    { <<>>,
      << <<271, "SAMSUNG">>, <<305, "Midjourney v5">> >>,
      << <<271, "Canon">>, <<272, "Canon EOS 5D">>, <<305, "Adobe Photoshop">>,
         <<37500, "x">> >>,
      << <<305, "Stable Diffusion">>, <<11, "DreamStudio">>, <<272, "Leonardo Firefly">> >> }

\* per-channel standard deviations (ImageStat.Stat(img).stddev)
StddevSamples ==
    { <<0, 0, 0>>, <<10, 13, 11>>, <<70, 70, 70>>, <<71, 70, 70>>, <<60, 75, 78>> }

\* the places of the extended pipeline where a check can fail internally
CheckUnits == { "edge", "smoothness", "geometry", "metadata", "format", "color" }

\* "response": an exception outside validation, loading and the checks
\* (MemoryError while hashing the buffer or building the response dict)
FaultUnits == CheckUnits \cup { "response" }

FaultSets == { F \in SUBSET FaultUnits : Cardinality(F) <= MaxFaults }

\* selftest: Image.new("RGB", (512, 512), color=(128, 128, 128)) saved as JPEG
\* without EXIF. Every pixel has the same value, so the gray variance and the
\* channel deviations are 0; FIND_EDGES is 0 inside the image and the filter's
\* treatment of the one-pixel border decides whether the edge statistics are
\* 0 or slightly above (edge_small is <<std, mean>>).
test_img ==
    [ decoded : {TRUE},
      size : { <<512, 512>> },
      edge_mean : { 0, 1 },
      variance : { 0 },
      edge_small : { <<0, 0>>, <<16, 2>> },
      exif : { <<>> },
      stddev : { <<0, 0, 0>> },
      faults : FaultSets ]

\* decoded images of the extended pipeline with header size <<w, h>>
Images(w, h) ==
    [ decoded : {TRUE},
      size : { <<w, h>> },
      edge_mean : { extreme_sharpness_threshold, extreme_sharpness_threshold + 1 },
      variance : { extreme_smoothness_threshold - 1, extreme_smoothness_threshold },
      edge_small : { <<9, 51>>, <<10, 51>>, <<9, 50>> },
      exif : ExifSamples,
      stddev : StddevSamples,
      faults : FaultSets ]
    \cup (IF <<w, h>> = <<512, 512>> THEN test_img ELSE {})

----------------------------------------------------------------------------
(* image_detector_enhanced: validation *)

\* faulty variant: the emptiness test missing, the empty buffer goes to the decoder
validate_image_data_no_empty_test(d) ==
    IF d.len > CONFIG.max_file_size_mb * (1024 * 1024)
    THEN [err |-> "Image too large", opened |-> FALSE]
    ELSE IF ~d.header
    THEN [err |-> "Invalid image format", opened |-> TRUE]
    ELSE IF d.w > CONFIG.max_dimension \/ d.h > CONFIG.max_dimension
    THEN [err |-> "Dimensions too large", opened |-> TRUE]
    ELSE IF d.w < CONFIG.min_dimension \/ d.h < CONFIG.min_dimension
    THEN [err |-> "Dimensions too small", opened |-> TRUE]
    ELSE [err |-> NoValue, opened |-> TRUE]

\* faulty variant: the size compared with >= instead of >
validate_image_data_size_inclusive(d) ==
    IF d.len = 0
    THEN [err |-> "Empty image data", opened |-> FALSE]
    ELSE IF d.len >= CONFIG.max_file_size_mb * (1024 * 1024)
    THEN [err |-> "Image too large", opened |-> FALSE]
    ELSE IF ~d.header
    THEN [err |-> "Invalid image format", opened |-> TRUE]
    ELSE IF d.w > CONFIG.max_dimension \/ d.h > CONFIG.max_dimension
    THEN [err |-> "Dimensions too large", opened |-> TRUE]
    ELSE IF d.w < CONFIG.min_dimension \/ d.h < CONFIG.min_dimension
    THEN [err |-> "Dimensions too small", opened |-> TRUE]
    ELSE [err |-> NoValue, opened |-> TRUE]

\* faulty variant: the dimensions compared with >= and <= instead of > and <
validate_image_data_dims_exclusive(d) ==
    IF d.len = 0
    THEN [err |-> "Empty image data", opened |-> FALSE]
    ELSE IF d.len > CONFIG.max_file_size_mb * (1024 * 1024)
    THEN [err |-> "Image too large", opened |-> FALSE]
    ELSE IF ~d.header
    THEN [err |-> "Invalid image format", opened |-> TRUE]
    ELSE IF d.w >= CONFIG.max_dimension \/ d.h >= CONFIG.max_dimension
    THEN [err |-> "Dimensions too large", opened |-> TRUE]
    ELSE IF d.w <= CONFIG.min_dimension \/ d.h <= CONFIG.min_dimension
    THEN [err |-> "Dimensions too small", opened |-> TRUE]
    ELSE [err |-> NoValue, opened |-> TRUE]

\* validate_image_data: err is the ImageValidationError message (NoValue when
\* the function returns), opened tells whether Image.open was called
validate_image_data(d) ==
    IF d.len = 0
    THEN [err |-> "Empty image data", opened |-> FALSE]
    ELSE IF d.len > CONFIG.max_file_size_mb * (1024 * 1024)
    THEN [err |-> "Image too large", opened |-> FALSE]
    ELSE IF ~d.header
    THEN [err |-> "Invalid image format", opened |-> TRUE]
    ELSE IF d.w > CONFIG.max_dimension \/ d.h > CONFIG.max_dimension
    THEN [err |-> "Dimensions too large", opened |-> TRUE]
    ELSE IF d.w < CONFIG.min_dimension \/ d.h < CONFIG.min_dimension
    THEN [err |-> "Dimensions too small", opened |-> TRUE]
    ELSE [err |-> NoValue, opened |-> TRUE]

\* Image.open(io.BytesIO(data)): what the bytes decode to; the same bytes
\* decode to the same image on every call
decode(d) ==
    IF d \in DOMAIN first_call /\ first_call[d].img.decoded
    THEN {first_call[d].img}
    ELSE Images(d.w, d.h)

\* load_image: every decoding failure is re-raised as ImageValidationError
load_image(d) ==
    IF d.header /\ d.body
    THEN [err |-> NoValue]
    ELSE [err |-> "Failed to load image"]

----------------------------------------------------------------------------
(* image_detector_enhanced: heuristic checks.  Each returns the pair        *)
(* (score, flags) of the code, and raised = TRUE when the call raises.      *)

ai_markers == << "midjourney", "dalle", "stable diffusion", "stablediffusion",
                 "dreamstudio", "leonardo", "firefly" >>

\* faulty variant: one try block around the three sub-checks
check_obvious_ai_artifacts_single_try(im) ==
    IF im.faults \cap {"edge", "smoothness", "geometry"} # {}
    THEN [score |-> 0, flags |-> <<"Artifact check failed">>, raised |-> FALSE]
    ELSE [ score |-> Min((IF im.edge_mean > CONFIG.extreme_sharpness_threshold THEN 3000 ELSE 0)
                         + (IF im.variance < CONFIG.extreme_smoothness_threshold THEN 2500 ELSE 0)
                         + (IF im.edge_small[1] < 10 /\ im.edge_small[2] > 50 THEN 2000 ELSE 0),
                         10000),
           flags |-> (IF im.edge_mean > CONFIG.extreme_sharpness_threshold
                      THEN <<"Extreme sharpening detected">> ELSE <<>>)
                     \o (IF im.variance < CONFIG.extreme_smoothness_threshold
                         THEN <<"Extreme smoothness detected">> ELSE <<>>)
                     \o (IF im.edge_small[1] < 10 /\ im.edge_small[2] > 50
                         THEN <<"Regular pattern detected">> ELSE <<>>),
           raised |-> FALSE ]

check_obvious_ai_artifacts(im) ==
    LET edge ==
            IF "edge" \in im.faults
            THEN [score |-> 0, flags |-> <<"Edge detection failed">>]
            ELSE IF im.edge_mean > CONFIG.extreme_sharpness_threshold
            THEN [score |-> 3000, flags |-> <<"Extreme sharpening detected">>]
            ELSE [score |-> 0, flags |-> <<>>]
        smooth ==
            IF "smoothness" \in im.faults
            THEN [score |-> 0, flags |-> <<"Smoothness check failed">>]
            ELSE IF im.variance < CONFIG.extreme_smoothness_threshold
            THEN [score |-> 2500, flags |-> <<"Extreme smoothness detected">>]
            ELSE [score |-> 0, flags |-> <<>>]
        geometry ==
            IF "geometry" \in im.faults
            THEN [score |-> 0, flags |-> <<"Geometry check failed">>]
            ELSE IF im.edge_small[1] < 10 /\ im.edge_small[2] > 50
            THEN [score |-> 2000, flags |-> <<"Regular pattern detected">>]
            ELSE [score |-> 0, flags |-> <<>>]
    IN  [ score |-> Min(edge.score + smooth.score + geometry.score, 10000),
          flags |-> edge.flags \o smooth.flags \o geometry.flags,
          raised |-> FALSE ]

\* the first marker of ai_markers, from position i on, found in tag_value
RECURSIVE first_marker(_, _)
first_marker(tag_value, i) ==
    IF i > Len(ai_markers) THEN NoValue
    ELSE IF ai_markers[i] \in Substrings(tag_value) THEN ai_markers[i]
    ELSE first_marker(tag_value, i + 1)

\* the loop collecting software_tags from exif.items()
RECURSIVE software_tags(_)
software_tags(exif) ==
    IF exif = <<>> THEN <<>>
    ELSE LET tag_name == TAGS(Head(exif)[1])
         IN  (IF tag_name \in {"Software", "ProcessingSoftware", "Model"}
              THEN << lower(Head(exif)[2]) >> ELSE <<>>)
             \o software_tags(Tail(exif))

\* the loop over software_tags: 0.50 and one flag per tag naming a marker
RECURSIVE marker_hits(_)
marker_hits(tags) ==
    IF tags = <<>> THEN [score |-> 0, flags |-> <<>>]
    ELSE LET rest == marker_hits(Tail(tags))
             m == first_marker(Head(tags), 1)
         IN  IF m = NoValue THEN rest
             ELSE [score |-> 5000 + rest.score,
                   flags |-> <<"AI software detected in metadata: " \o m>> \o rest.flags]

\* faulty variant: an image without EXIF is flagged, as image_detector.exif_score does
check_metadata_red_flags_absence(im) ==
    IF "metadata" \in im.faults
    THEN [score |-> 0, flags |-> <<>>, raised |-> FALSE]
    ELSE IF im.exif = <<>>
    THEN [score |-> 1000, flags |-> <<"No EXIF data found">>, raised |-> FALSE]
    ELSE LET hits == marker_hits(software_tags(im.exif))
         IN  [score |-> Min(hits.score, 10000), flags |-> hits.flags, raised |-> FALSE]

check_metadata_red_flags(im) ==
    IF "metadata" \in im.faults
    THEN [score |-> 0, flags |-> <<>>, raised |-> FALSE]
    ELSE LET hits == marker_hits(software_tags(im.exif))
         IN  [score |-> Min(hits.score, 10000), flags |-> hits.flags, raised |-> FALSE]

check_format_patterns(im) ==
    IF "format" \in im.faults
    THEN [score |-> 0, flags |-> <<>>, raised |-> TRUE]
    ELSE LET w == im.size[1]
             h == im.size[2]
         IN  IF <<w, h>> \in CONFIG.known_ai_resolutions \/ <<h, w>> \in CONFIG.known_ai_resolutions
             THEN [score |-> 1500,
                   flags |-> <<"Exact match to common AI resolution">>,
                   raised |-> FALSE]
             ELSE [score |-> 0, flags |-> <<>>, raised |-> FALSE]

\* faulty variant: the except branch passes without a flag
check_color_anomalies_silent(im) ==
    IF "color" \in im.faults
    THEN [score |-> 0, flags |-> <<>>, raised |-> FALSE]
    ELSE LET max_diff == Max(Max(Abs(im.stddev[1] - im.stddev[2]),
                                 Abs(im.stddev[2] - im.stddev[3])),
                             Abs(im.stddev[1] - im.stddev[3]))
             uniform == max_diff < 3
             saturated == im.stddev[1] + im.stddev[2] + im.stddev[3] > 70 * 3
         IN  [ score |-> (IF uniform THEN 1500 ELSE 0) + (IF saturated THEN 1500 ELSE 0),
               flags |-> (IF uniform THEN <<"Extreme color uniformity detected">> ELSE <<>>)
                         \o (IF saturated THEN <<"Extreme color saturation detected">> ELSE <<>>),
               raised |-> FALSE ]

check_color_anomalies(im) ==
    IF "color" \in im.faults
    THEN [score |-> 0, flags |-> <<"Color analysis failed">>, raised |-> FALSE]
    ELSE LET std_r == im.stddev[1]
             std_g == im.stddev[2]
             std_b == im.stddev[3]
             max_diff == Max(Max(Abs(std_r - std_g), Abs(std_g - std_b)), Abs(std_r - std_b))
             uniform == max_diff < 3
             \* avg_std = (std_r + std_g + std_b) / 3 > 70
             saturated == std_r + std_g + std_b > 70 * 3
         IN  [ score |-> (IF uniform THEN 1500 ELSE 0) + (IF saturated THEN 1500 ELSE 0),
               flags |-> (IF uniform THEN <<"Extreme color uniformity detected">> ELSE <<>>)
                         \o (IF saturated THEN <<"Extreme color saturation detected">> ELSE <<>>),
               raised |-> FALSE ]

\* prefilter_heuristics: the list `checks`
checks == << "artifacts", "metadata", "format", "color" >>

check_func(check_name, im) ==
    CASE check_name = "artifacts" -> check_obvious_ai_artifacts(im)
      [] check_name = "metadata" -> check_metadata_red_flags(im)
      [] check_name = "format" -> check_format_patterns(im)
      [] check_name = "color" -> check_color_anomalies(im)

\* faulty variant: the thresholds compared with > instead of >=
detection_level_exclusive(total) ==
    IF total > 7000 THEN [level |-> "obvious_ai", needs_ml |-> FALSE]
    ELSE IF total > 4000 THEN [level |-> "suspicious", needs_ml |-> TRUE]
    ELSE IF total > 2000 THEN [level |-> "uncertain", needs_ml |-> TRUE]
    ELSE [level |-> "likely_real", needs_ml |-> FALSE]

\* prefilter_heuristics: detection level and needs_ml of a clamped total
detection_level(total) ==
    IF total >= 7000 THEN [level |-> "obvious_ai", needs_ml |-> FALSE]
    ELSE IF total >= 4000 THEN [level |-> "suspicious", needs_ml |-> TRUE]
    ELSE IF total >= 2000 THEN [level |-> "uncertain", needs_ml |-> TRUE]
    ELSE [level |-> "likely_real", needs_ml |-> FALSE]

\* prefilter_heuristics: total_score = max(0.0, min(total_score, 1.0))
clamp(total) == Max(0, Min(total, 10000))

\* faulty variant: a check is skipped once the running total is already "obvious"
loop_body_short_circuit(check_name, im, acc) ==
    LET r == IF acc.total_score >= 7000
             THEN [score |-> 0, flags |-> <<>>, raised |-> FALSE]
             ELSE check_func(check_name, im)
    IN  IF ~r.raised
        THEN [ total_score |-> acc.total_score + r.score,
               all_flags |-> acc.all_flags \o r.flags,
               scores_breakdown |-> acc.scores_breakdown @@
                   (check_name :> [score |-> round3(r.score), flags |-> r.flags]) ]
        ELSE [ total_score |-> acc.total_score,
               all_flags |-> Append(acc.all_flags, check_name \o " check failed"),
               scores_breakdown |-> acc.scores_breakdown @@
                   (check_name :> [score |-> 0, flags |-> <<"Check failed">>]) ]

\* prefilter_heuristics: the body of the loop over `checks`, on the locals
\* acc = (total_score, all_flags, scores_breakdown)
loop_body(check_name, im, acc) ==
    LET r == check_func(check_name, im)
    IN  IF ~r.raised
        THEN [ total_score |-> acc.total_score + r.score,
               all_flags |-> acc.all_flags \o r.flags,
               scores_breakdown |-> acc.scores_breakdown @@
                   (check_name :> [score |-> round3(r.score), flags |-> r.flags]) ]
        ELSE [ total_score |-> acc.total_score,
               all_flags |-> Append(acc.all_flags, check_name \o " check failed"),
               scores_breakdown |-> acc.scores_breakdown @@
                   (check_name :> [score |-> 0, flags |-> <<"Check failed">>]) ]

\* prefilter_heuristics: the statements after the loop
aggregate(acc) ==
    LET total == clamp(acc.total_score)
        d == detection_level(total)
    IN  [ prefilter_score |-> round3(total),
          detection_level |-> d.level,
          needs_ml_verification |-> d.needs_ml,
          flags |-> acc.all_flags,
          scores_breakdown |-> acc.scores_breakdown ]

RECURSIVE run_checks(_, _, _)
run_checks(names, im, acc) ==
    IF names = <<>> THEN acc
    ELSE run_checks(Tail(names), im, loop_body(Head(names), im, acc))

\* prefilter_heuristics as a function of the image
prefilter_heuristics(im) ==
    aggregate(run_checks(checks, im,
        [total_score |-> 0, all_flags |-> <<>>, scores_breakdown |-> << >>]))

\* faulty variant: the likely_real tier is given the text of the uncertain tier
_get_recommendation_no_default(level) ==
    IF level = "obvious_ai"
    THEN "High confidence AI detection - multiple obvious artifacts found"
    ELSE IF level = "suspicious"
    THEN "Suspicious patterns detected - ML verification recommended"
    ELSE "Inconclusive - ML analysis required for accurate detection"

_get_recommendation(level) ==
    IF level = "obvious_ai"
    THEN "High confidence AI detection - multiple obvious artifacts found"
    ELSE IF level = "suspicious"
    THEN "Suspicious patterns detected - ML verification recommended"
    ELSE IF level = "uncertain"
    THEN "Inconclusive - ML analysis required for accurate detection"
    ELSE "No obvious AI artifacts detected - likely authentic photo"

----------------------------------------------------------------------------
(* image_detector (v0.5): heuristics.  Each returns its score, the warnings *)
(* it appends and raised = TRUE when the call raises.                       *)

\* the places of the v0.5 pipeline where a heuristic can fail internally
FaultUnits_v05 == { "base", "exif", "smoothness", "oversharp", "color", "weird_hand" }

FaultSets_v05 == { F \in SUBSET FaultUnits_v05 : Cardinality(F) <= MaxFaults }

Dims_v05 == { 10, 512, max_dimension }

Buffers_v05 ==
    { [len |-> 0, header |-> FALSE, w |-> 0, h |-> 0, body |-> FALSE],
      [len |-> TextLen, header |-> FALSE, w |-> 0, h |-> 0, body |-> FALSE] }
    \cup [len : {MaxBytes}, header : {TRUE}, w : Dims_v05, h : Dims_v05, body : BOOLEAN]

\* decoded images of the v0.5 pipeline; white_ratio in percent
\* EXIF blocks of the sample files of image_detector: those of ExifSamples
\* and one whose only tag is the Make of a camera
ExifSamples_v05 == ExifSamples \cup { << <<271, "SONY">> >> }

Images_v05(w, h) ==
    [ decoded : {TRUE},
      size : { <<w, h>> },
      white_ratio : { 65, 66 },
      low_p : { 39, 40 },
      exif : ExifSamples_v05,
      variance : { 259, 260, 500, 501 },
      edge_mean : { 45, 46 },
      stddev : { <<10, 16, 11>>, <<55, 55, 55>>, <<60, 50, 58>> },
      mean_edges : { 45, 46 },
      faults : FaultSets_v05 ]

detect_paper_or_scan(im) ==
    IF im.white_ratio > 65
    THEN [score |-> 0 - 2500, warnings |-> <<"Papier/Scan erkannt">>]
    ELSE [score |-> 0, warnings |-> <<>>]

base_score_from_image(im) ==
    IF "base" \in im.faults
    THEN [score |-> 0, warnings |-> <<>>, raised |-> TRUE]
    ELSE LET paper == detect_paper_or_scan(im)
             square == im.size[1] = im.size[2]
             cinematic == im.low_p < 40
             base == 3000 + paper.score
                     + (IF square THEN 2000 ELSE 0)
                     + (IF cinematic THEN 1500 ELSE 0)
         IN  [ score |-> Max(500, Min(base, 7000)),
               warnings |-> paper.warnings
                   \o (IF square THEN <<"Quadratisches Bildformat">> ELSE <<>>)
                   \o (IF cinematic THEN <<"Cinematic Lighting erkannt">> ELSE <<>>),
               raised |-> FALSE ]

\* the loop of exif_score: TRUE when a Make tag names a recognized camera maker
RECURSIVE real_camera(_)
real_camera(exif) ==
    IF exif = <<>> THEN FALSE
    ELSE \/ /\ TAGS(Head(exif)[1]) = "Make"
            /\ Substrings(lower(Head(exif)[2]))
                   \cap {"canon", "sony", "nikon", "fujifilm"} # {}
         \/ real_camera(Tail(exif))

\* faulty variant: a recognized camera maker brings no relief
exif_score_no_relief(im) ==
    IF "exif" \in im.faults
    THEN [score |-> 500, warnings |-> <<"EXIF nicht lesbar">>, raised |-> FALSE]
    ELSE IF Len(im.exif) = 0
    THEN [score |-> 1000, warnings |-> <<"Keine EXIF-Daten gefunden">>, raised |-> FALSE]
    ELSE [score |-> 0, warnings |-> <<>>, raised |-> FALSE]

exif_score(im) ==
    IF "exif" \in im.faults
    THEN [score |-> 500, warnings |-> <<"EXIF nicht lesbar">>, raised |-> FALSE]
    ELSE IF Len(im.exif) = 0
    THEN [score |-> 1000, warnings |-> <<"Keine EXIF-Daten gefunden">>, raised |-> FALSE]
    ELSE IF real_camera(im.exif)
    THEN [score |-> 0 - 3000, warnings |-> <<"Echte Kamera erkannt">>, raised |-> FALSE]
    ELSE [score |-> 0, warnings |-> <<>>, raised |-> FALSE]

oversharp_score(im) ==
    IF "oversharp" \in im.faults
    THEN [score |-> 0, warnings |-> <<>>, raised |-> TRUE]
    ELSE IF im.edge_mean > 45
    THEN [score |-> 3000, warnings |-> <<"KI-Oversharpening">>, raised |-> FALSE]
    ELSE [score |-> 0, warnings |-> <<>>, raised |-> FALSE]

smoothness_score(im) ==
    IF "smoothness" \in im.faults
    THEN [score |-> 0, warnings |-> <<>>, raised |-> TRUE]
    ELSE IF im.variance < 260
    THEN [score |-> 2500, warnings |-> <<"KI-Glaettung">>, raised |-> FALSE]
    ELSE IF 260 <= im.variance /\ im.variance <= 500
    THEN [score |-> 1500, warnings |-> <<"KI-Rauschsimulation moeglich">>, raised |-> FALSE]
    ELSE [score |-> 0, warnings |-> <<>>, raised |-> FALSE]

color_score(im) ==
    IF "color" \in im.faults
    THEN [score |-> 0, warnings |-> <<>>, raised |-> TRUE]
    ELSE LET std_r == im.stddev[1]
             std_g == im.stddev[2]
             std_b == im.stddev[3]
         IN  \* saturation = (std_r + std_g + std_b) / 3 > 55
             IF std_r + std_g + std_b > 55 * 3
             THEN [score |-> 2000, warnings |-> <<"KI-Farbprofil">>, raised |-> FALSE]
             ELSE IF Abs(std_r - std_g) < 6 /\ Abs(std_g - std_b) < 6
             THEN [score |-> 1500, warnings |-> <<"KI-Hinweis Farbharmonie">>, raised |-> FALSE]
             ELSE [score |-> 0, warnings |-> <<>>, raised |-> FALSE]

weird_hand_score(im) ==
    IF "weird_hand" \in im.faults
    THEN [score |-> 0, warnings |-> <<>>, raised |-> FALSE]
    ELSE IF im.mean_edges > 45
    THEN [score |-> 2000, warnings |-> <<"KI-Artefakte moeglich">>, raised |-> FALSE]
    ELSE [score |-> 0, warnings |-> <<>>, raised |-> FALSE]

resolution_score(im) ==
    LET w == im.size[1]
        h == im.size[2]
        typical == w \in {512, 768, 1024, 1536, 2048}
        low == w * h < 200000
    IN  [ score |-> (IF typical THEN 2000 ELSE 0) - (IF low THEN 1500 ELSE 0),
          warnings |-> (IF typical THEN <<"Typische KI-Aufloesungsgroesse erkannt">> ELSE <<>>)
                       \o (IF low THEN <<"Geringe Aufloesung">> ELSE <<>>),
          raised |-> FALSE ]

\* analyze_image (v0.5): the heuristics in the order they are called
heuristics_v05(im) ==
    << base_score_from_image(im), exif_score(im), smoothness_score(im),
       oversharp_score(im), color_score(im), resolution_score(im),
       weird_hand_score(im) >>

\* faulty variant: the upper clamp missing
clamp_v05_unbounded(x) == Max(0, x)

\* analyze_image (v0.5): score = max(0.0, min(score, 1.0))
clamp_v05(x) == Max(0, Min(x, 10000))

\* analyze_image (v0.5): the score before the clamp, for an image on which no
\* heuristic raises
score_sum_v05(im) ==
    LET hs == heuristics_v05(im)
    IN  SumSeq([k \in 1..Len(hs) |-> hs[k].score])

\* analyze_image (v0.5): the value returned under "is_ai_probability"
is_ai_probability(im) == round2(clamp_v05(score_sum_v05(im)))

----------------------------------------------------------------------------
(* Requests *)

Pending == [status |-> "pending"]

ErrorResult(type, message) ==
    [status |-> "error", error_type |-> type, error_message |-> message]

\* round(len(data) / 1024, 2), in 1/100 KB
file_size_kb(d) ==
    (d.len \div 1024) * 100 + ((d.len % 1024) * 100 + 512) \div 1024

Init ==
    /\ pipeline \in {"enhanced", "v05"}
    /\ data \in (IF pipeline = "enhanced" THEN Buffers ELSE Buffers_v05)
    /\ img = NoImage
    /\ pc = IF pipeline = "enhanced" THEN "validate" ELSE "load"
    /\ pending = <<>>
    /\ total_score = 0
    /\ all_flags = <<>>
    /\ scores_breakdown = << >>
    /\ heuristic_results = Pending
    /\ result = Pending
    /\ raised = FALSE
    /\ validation = "pending"
    /\ decode_attempted = FALSE
    /\ checks_run = {}
    /\ score = 0
    /\ warnings = <<>>
    /\ CONFIG = HeuristicConfig
    /\ first_call = << >>
    /\ calls = 0

\* faulty variant: a rejection is recorded but the pipeline goes on
Validate_continue ==
    /\ pipeline = "enhanced"
    /\ pc = "validate"
    /\ LET v == validate_image_data(data)
       IN  /\ decode_attempted' = v.opened
           /\ validation' = IF v.err # NoValue THEN v.err ELSE "accepted"
           /\ pc' = "load"
    /\ UNCHANGED <<pipeline, data, img, pending, total_score, all_flags,
                   scores_breakdown, heuristic_results, result, raised,
                   checks_run, score, warnings>>
    /\ UNCHANGED session

\* faulty variant: validate_image_data called outside the try block
Validate_outside_try ==
    /\ pipeline = "enhanced"
    /\ pc = "validate"
    /\ LET v == validate_image_data(data)
       IN  /\ decode_attempted' = v.opened
           /\ IF v.err # NoValue
              THEN /\ validation' = v.err
                   /\ raised' = TRUE
                   /\ pc' = "done"
              ELSE /\ validation' = "accepted"
                   /\ raised' = raised
                   /\ pc' = "load"
    /\ UNCHANGED <<pipeline, data, img, pending, total_score, all_flags,
                   scores_breakdown, heuristic_results, result, checks_run,
                   score, warnings>>
    /\ UNCHANGED session

\* analyze_image: validate_image_data(data) and the ImageValidationError handler
Validate ==
    /\ pipeline = "enhanced"
    /\ pc = "validate"
    /\ LET v == validate_image_data(data)
       IN  /\ decode_attempted' = v.opened
           /\ IF v.err # NoValue
              THEN /\ validation' = v.err
                   /\ result' = ErrorResult("validation_error", v.err)
                   /\ pc' = "done"
              ELSE /\ validation' = "accepted"
                   /\ result' = result
                   /\ pc' = "load"
    /\ UNCHANGED <<pipeline, data, img, pending, total_score, all_flags,
                   scores_breakdown, heuristic_results, raised, checks_run,
                   score, warnings>>
    /\ UNCHANGED session

\* faulty variant: the decoder's exception is not wrapped as ImageValidationError
\* and reaches the `except Exception` handler
Load_unwrapped ==
    /\ pipeline = "enhanced"
    /\ pc = "load"
    /\ LET l == load_image(data)
       IN  IF l.err # NoValue
           THEN /\ result' = ErrorResult("processing_error", l.err)
                /\ pc' = "done"
                /\ UNCHANGED <<img, pending>>
           ELSE /\ \E im \in decode(data) : img' = im
                /\ pending' = checks
                /\ pc' = "prefilter"
                /\ result' = result
    /\ UNCHANGED <<pipeline, data, total_score, all_flags, scores_breakdown,
                   heuristic_results, raised, validation, decode_attempted,
                   checks_run, score, warnings>>
    /\ UNCHANGED session

\* analyze_image: img = load_image(data), then the locals of prefilter_heuristics
Load ==
    /\ pipeline = "enhanced"
    /\ pc = "load"
    /\ LET l == load_image(data)
       IN  IF l.err # NoValue
           THEN /\ result' = ErrorResult("validation_error", l.err)
                /\ pc' = "done"
                /\ UNCHANGED <<img, pending>>
           ELSE /\ \E im \in decode(data) : img' = im
                /\ pending' = checks
                /\ pc' = "prefilter"
                /\ result' = result
    /\ UNCHANGED <<pipeline, data, total_score, all_flags, scores_breakdown,
                   heuristic_results, raised, validation, decode_attempted,
                   checks_run, score, warnings>>
    /\ UNCHANGED session

\* prefilter_heuristics: one iteration of the loop, on the i-th pending check
RunCheckAt(i) ==
    /\ pipeline = "enhanced"
    /\ pc = "prefilter"
    /\ i \in 1..Len(pending)
    /\ LET acc == loop_body(pending[i], img,
                      [ total_score |-> total_score, all_flags |-> all_flags,
                        scores_breakdown |-> scores_breakdown ])
       IN  /\ total_score' = acc.total_score
           /\ all_flags' = acc.all_flags
           /\ scores_breakdown' = acc.scores_breakdown
    /\ checks_run' = checks_run \cup {pending[i]}
    /\ pending' = [k \in 1..(Len(pending) - 1) |->
                      IF k < i THEN pending[k] ELSE pending[k + 1]]
    /\ UNCHANGED <<pipeline, data, img, pc, heuristic_results, result, raised,
                   validation, decode_attempted, score, warnings>>
    /\ UNCHANGED session

\* the loop runs the checks in list order
RunCheck == RunCheckAt(1)

\* the checks of one request evaluated in an arbitrary order
RunAnyCheck == \E i \in 1..Len(checks) : RunCheckAt(i)

\* prefilter_heuristics: clamp, detection level, returned dict
Aggregate ==
    /\ pipeline = "enhanced"
    /\ pc = "prefilter"
    /\ pending = <<>>
    /\ total_score' = clamp(total_score)
    /\ heuristic_results' =
           aggregate([ total_score |-> total_score, all_flags |-> all_flags,
                       scores_breakdown |-> scores_breakdown ])
    /\ pc' = "respond"
    /\ UNCHANGED <<pipeline, data, img, pending, all_flags, scores_breakdown,
                   result, raised, validation, decode_attempted, checks_run,
                   score, warnings>>
    /\ UNCHANGED session

\* faulty variant: the resolution of every analysed image is added to
\* CONFIG.known_ai_resolutions
Respond_learns_resolution ==
    /\ pipeline = "enhanced"
    /\ pc = "respond"
    /\ \/ /\ "response" \notin img.faults
          /\ result' =
              [ status |-> "success",
                image_hash |-> <<"sha256", data>>,
                dimensions |-> [width |-> img.size[1], height |-> img.size[2]],
                file_size_kb |-> file_size_kb(data),
                prefilter_score |-> heuristic_results.prefilter_score,
                detection_level |-> heuristic_results.detection_level,
                needs_ml_verification |-> heuristic_results.needs_ml_verification,
                flags |-> heuristic_results.flags,
                scores_breakdown |-> heuristic_results.scores_breakdown,
                ml_required |-> heuristic_results.needs_ml_verification,
                recommendation |-> _get_recommendation(heuristic_results.detection_level) ]
       \/ /\ "response" \in img.faults
          /\ result' = ErrorResult("processing_error", "MemoryError")
    /\ pc' = "done"
    /\ UNCHANGED <<pipeline, data, img, pending, total_score, all_flags,
                   scores_breakdown, heuristic_results, raised, validation,
                   decode_attempted, checks_run, score, warnings>>
    /\ CONFIG' = [CONFIG EXCEPT !.known_ai_resolutions = @ \cup {img.size}]
    /\ UNCHANGED <<first_call, calls>>

\* analyze_image: the response dict; an exception raised outside validation,
\* loading and the per-check handlers reaches the `except Exception` handler
Respond ==
    /\ pipeline = "enhanced"
    /\ pc = "respond"
    /\ \/ /\ "response" \notin img.faults
          /\ result' =
              [ status |-> "success",
                image_hash |-> <<"sha256", data>>,
                dimensions |-> [width |-> img.size[1], height |-> img.size[2]],
                file_size_kb |-> file_size_kb(data),
                prefilter_score |-> heuristic_results.prefilter_score,
                detection_level |-> heuristic_results.detection_level,
                needs_ml_verification |-> heuristic_results.needs_ml_verification,
                flags |-> heuristic_results.flags,
                scores_breakdown |-> heuristic_results.scores_breakdown,
                ml_required |-> heuristic_results.needs_ml_verification,
                recommendation |-> _get_recommendation(heuristic_results.detection_level) ]
       \/ /\ "response" \in img.faults
          /\ result' = ErrorResult("processing_error", "MemoryError")
    /\ pc' = "done"
    /\ UNCHANGED <<pipeline, data, img, pending, total_score, all_flags,
                   scores_breakdown, heuristic_results, raised, validation,
                   decode_attempted, checks_run, score, warnings>>
    /\ UNCHANGED session

\* image_detector.analyze_image: img = load_image(data); load_image logs and re-raises
Load_v05 ==
    /\ pipeline = "v05"
    /\ pc = "load"
    /\ IF data.header /\ data.body
       THEN /\ \E im \in Images_v05(data.w, data.h) : img' = im
            /\ pc' = "heuristics"
            /\ raised' = raised
       ELSE /\ raised' = TRUE
            /\ pc' = "done"
            /\ img' = img
    /\ UNCHANGED <<pipeline, data, pending, total_score, all_flags,
                   scores_breakdown, heuristic_results, result, validation,
                   decode_attempted, checks_run, score, warnings>>
    /\ UNCHANGED session

\* image_detector.analyze_image: base score plus the six heuristics
Heuristics_v05 ==
    /\ pipeline = "v05"
    /\ pc = "heuristics"
    /\ LET hs == heuristics_v05(img)
       IN  IF \E k \in 1..Len(hs) : hs[k].raised
           THEN /\ raised' = TRUE
                /\ pc' = "done"
                /\ UNCHANGED <<score, warnings>>
           ELSE /\ score' = SumSeq([k \in 1..Len(hs) |-> hs[k].score])
                /\ warnings' = hs[1].warnings \o hs[2].warnings \o hs[3].warnings
                                 \o hs[4].warnings \o hs[5].warnings
                                 \o hs[6].warnings \o hs[7].warnings
                /\ pc' = "return"
                /\ raised' = raised
    /\ UNCHANGED <<pipeline, data, img, pending, total_score, all_flags,
                   scores_breakdown, heuristic_results, result, validation,
                   decode_attempted, checks_run>>
    /\ UNCHANGED session

\* image_detector.analyze_image: clamp, round, returned dict
Return_v05 ==
    /\ pipeline = "v05"
    /\ pc = "return"
    /\ score' = round2(clamp_v05(score))
    /\ result' = [ is_ai_probability |-> score',
                   warnings |-> warnings,
                   dimensions |-> [width |-> img.size[1], height |-> img.size[2]] ]
    /\ pc' = "done"
    /\ UNCHANGED <<pipeline, data, img, pending, total_score, all_flags,
                   scores_breakdown, heuristic_results, raised, validation,
                   decode_attempted, checks_run, warnings>>
    /\ UNCHANGED session

\* the buffers of a session: the two failing edge cases of the test suite and
\* one image file that passes validation
SessionBuffers ==
    { [len |-> 0, header |-> FALSE, w |-> 0, h |-> 0, body |-> FALSE],
      [len |-> TextLen, header |-> FALSE, w |-> 0, h |-> 0, body |-> FALSE],
      [len |-> MaxBytes, header |-> TRUE, w |-> 512, h |-> max_dimension,
       body |-> TRUE] }

\* a further call of analyze_image, after the previous one has returned: the
\* locals of analyze_image and prefilter_heuristics are created afresh
NewRequest ==
    /\ pipeline = "enhanced"
    /\ pc = "done"
    /\ calls < MaxCalls
    /\ calls' = calls + 1
    /\ first_call' =
          IF data \in DOMAIN first_call
          THEN first_call
          ELSE first_call @@
               (data :> [img |-> img, result |-> result, raised |-> raised])
    /\ \E d \in SessionBuffers : data' = d
    /\ img' = NoImage
    /\ pc' = "validate"
    /\ pending' = <<>>
    /\ total_score' = 0
    /\ all_flags' = <<>>
    /\ scores_breakdown' = <<>>
    /\ heuristic_results' = Pending
    /\ result' = Pending
    /\ raised' = FALSE
    /\ validation' = "pending"
    /\ decode_attempted' = FALSE
    /\ checks_run' = {}
    /\ UNCHANGED <<pipeline, score, warnings, CONFIG>>

Next ==
    \/ Validate
    \/ Load
    \/ RunCheck
    \/ Aggregate
    \/ Respond
    \/ Load_v05
    \/ Heuristics_v05
    \/ Return_v05

Spec == Init /\ [][Next]_vars

\* the extended pipeline with the four checks run in any order
InitAnyOrder ==
    /\ Init
    /\ pipeline = "enhanced"
    /\ data.w \in {0, 10, 512, max_dimension}
    /\ data.h \in {0, 10, 512}

NextAnyOrder ==
    \/ Validate
    \/ Load
    \/ RunAnyCheck
    \/ Aggregate
    \/ Respond

SpecAnyOrder == InitAnyOrder /\ [][NextAnyOrder]_vars

\* a session: the extended pipeline called several times in a row
InitSeq ==
    /\ Init
    /\ pipeline = "enhanced"
    /\ data \in SessionBuffers

NextSeq ==
    \/ Validate
    \/ Load
    \/ RunCheck
    \/ Aggregate
    \/ Respond
    \/ NewRequest

SpecSeq == InitSeq /\ [][NextSeq]_vars

----------------------------------------------------------------------------
(* Properties *)

Returned == pc = "done" /\ ~raised

Succeeded == Returned /\ pipeline = "enhanced" /\ result.status = "success"

AllFire ==
    /\ img.edge_mean > extreme_sharpness_threshold
    /\ img.variance < extreme_smoothness_threshold
    /\ img.edge_small = <<9, 51>>
    /\ Len(software_tags(img.exif)) = 3
    /\ img.size \in known_ai_resolutions
    /\ img.stddev = <<71, 70, 70>>
    /\ img.faults = {}

\* C1: the score a request returns lies in [0.0, 1.0]: prefilter_score of the
\* extended pipeline and is_ai_probability of the v0.5 pipeline, whatever
\* combination of checks fired.
C1_ScoreInRange ==
    /\ (pipeline = "enhanced" /\ pc \in {"respond", "done"} /\ heuristic_results # Pending
            => /\ heuristic_results.prefilter_score >= 0
               /\ heuristic_results.prefilter_score <= 10000)
    /\ (Succeeded => result.prefilter_score >= 0 /\ result.prefilter_score <= 10000)
    /\ (pipeline = "v05" /\ Returned
            => result.is_ai_probability >= 0 /\ result.is_ai_probability <= 10000)

\* C1 witness: every check of the extended pipeline fired (the contributions
\* add up to 2.2) and the returned score is 1.0
C1_Witness ==
    /\ Succeeded
    /\ AllFire
    /\ SumSeq([k \in 1..Len(checks) |-> result.scores_breakdown[checks[k]].score]) = 22000
    /\ result.prefilter_score = 10000

Prefiltered ==
    pipeline = "enhanced" /\ pc \in {"respond", "done"} /\ heuristic_results # Pending

\* C2: the tier and the verification flag are determined by the clamped
\* aggregate score s: s >= 0.70 obvious_ai / no ML, 0.40 <= s < 0.70
\* suspicious / ML, 0.20 <= s < 0.40 uncertain / ML, s < 0.20 likely_real /
\* no ML; every s in [0, 1] falls in exactly one of the four.
C2_TierOfScore ==
    Prefiltered =>
        LET s == heuristic_results.prefilter_score
            tier == << heuristic_results.detection_level,
                       heuristic_results.needs_ml_verification >>
        IN  /\ s = total_score
            /\ s >= 0 /\ s <= 10000
            /\ s >= 7000 => tier = <<"obvious_ai", FALSE>>
            /\ (s >= 4000 /\ s < 7000) => tier = <<"suspicious", TRUE>>
            /\ (s >= 2000 /\ s < 4000) => tier = <<"uncertain", TRUE>>
            /\ s < 2000 => tier = <<"likely_real", FALSE>>
            /\ Succeeded =>
                   /\ result.prefilter_score = s
                   /\ result.detection_level = tier[1]
                   /\ result.needs_ml_verification = tier[2]

\* C2 witness: a request whose score is exactly 0.70 is returned as obvious_ai
C2_Witness ==
    /\ Succeeded
    /\ result.prefilter_score = 7000
    /\ result.detection_level = "obvious_ai"
    /\ ~result.needs_ml_verification

\* C3: when validate_image_data rejects the buffer, no heuristic check is
\* executed in that request, the image is never loaded, and the request ends
\* with an error result.
C3_ValidationFirst ==
    (pipeline = "enhanced" /\ validate_image_data(data).err # NoValue) =>
        /\ checks_run = {}
        /\ img = NoImage
        /\ pc \in {"validate", "done"}
        /\ pc = "done" => result.status = "error"

\* C3 witness: a 10x10 image was rejected and the request is over
C3_Witness ==
    /\ pipeline = "enhanced"
    /\ pc = "done"
    /\ data.w = 10 /\ data.h = 10
    /\ validation = "Dimensions too small"
    /\ result.status = "error"
    /\ checks_run = {}

\* C4: for every byte buffer the extended analyze_image never raises: no
\* exception escapes at any position of the call, and what it returns is a
\* success result or an error result with error_type validation_error or
\* processing_error and a message string.
C4_StructuredResult ==
    pipeline = "enhanced" =>
        /\ ~raised
        /\ pc \in {"validate", "load", "prefilter", "respond", "done"}
        /\ pc # "done" => result = Pending
        /\ pc = "done" =>
               \/ result.status = "success"
               \/ /\ result.status = "error"
                  /\ result.error_type \in {"validation_error", "processing_error"}
                  /\ result.error_message \in STRING

\* C4 witness: a request ended with a processing_error result
C4_Witness ==
    /\ pipeline = "enhanced"
    /\ pc = "done"
    /\ ~raised
    /\ result.status = "error"
    /\ result.error_type = "processing_error"

Validated == pipeline = "enhanced" /\ pc # "validate"

\* C5 (as claimed): the empty buffer is reported as validation_error "Empty
\* image data", and every non-empty buffer that is not a decodable image as
\* validation_error "Invalid image format".
C5_AsClaimed ==
    (pipeline = "enhanced" /\ pc = "done") =>
        /\ data.len = 0 =>
               result = ErrorResult("validation_error", "Empty image data")
        /\ (data.len > 0 /\ ~data.header) =>
               result = ErrorResult("validation_error", "Invalid image format")

\* C5 (amended): the empty buffer is reported as validation_error "Empty image
\* data"; a non-empty buffer within the size limit that the decoder cannot
\* identify is reported as validation_error "Invalid image format"; one over
\* the size limit is reported as validation_error "Image too large".  None of
\* them is a processing_error.
C5_EmptyAndUndecodable ==
    (pipeline = "enhanced" /\ pc = "done") =>
        /\ data.len = 0 =>
               result = ErrorResult("validation_error", "Empty image data")
        /\ (data.len > 0 /\ data.len <= MaxBytes /\ ~data.header) =>
               result = ErrorResult("validation_error", "Invalid image format")
        /\ (data.len > MaxBytes /\ ~data.header) =>
               result = ErrorResult("validation_error", "Image too large")

\* C5 witness: the text buffer of the test suite was reported as an invalid format
C5_Witness ==
    /\ pipeline = "enhanced"
    /\ pc = "done"
    /\ data.len = TextLen
    /\ ~data.header
    /\ result = ErrorResult("validation_error", "Invalid image format")

\* C6: the size check lets a buffer of exactly max_file_size_mb * 1024 * 1024
\* bytes through to the decoder, and rejects a buffer one byte longer with a
\* validation error citing the size, before Image.open is called.
C6_SizeBoundary ==
    Validated =>
        /\ data.len = MaxBytes =>
               /\ validation # "Image too large"
               /\ decode_attempted
        /\ data.len = MaxBytes + 1 =>
               /\ validation = "Image too large"
               /\ result = ErrorResult("validation_error", "Image too large")
               /\ ~decode_attempted
               /\ pc = "done"

\* C6 witness: an image file one byte over the limit was rejected undecoded
C6_Witness ==
    /\ Validated
    /\ data.len = MaxBytes + 1
    /\ data.header /\ data.body
    /\ validation = "Image too large"
    /\ ~decode_attempted

\* the buffer reached the dimension test of validate_image_data
DimensionsTested == Validated /\ data.len > 0 /\ data.len <= MaxBytes /\ data.header

\* C7: the dimension test accepts an image whose width and height are both in
\* [min_dimension, max_dimension] and rejects it with a validation error
\* citing the dimensions when either is min_dimension - 1 or smaller or
\* max_dimension + 1 or larger; a 10x10 image is rejected as too small.
C7_DimensionBoundary ==
    DimensionsTested =>
        LET InRange(x) == x >= min_dimension /\ x <= max_dimension
            Out(x) == x <= min_dimension - 1 \/ x >= max_dimension + 1
        IN  /\ (InRange(data.w) /\ InRange(data.h)) => validation = "accepted"
            /\ (Out(data.w) \/ Out(data.h)) =>
                   /\ validation \in {"Dimensions too small", "Dimensions too large"}
                   /\ result = ErrorResult("validation_error", validation)
            /\ (data.w = 10 /\ data.h = 10) => validation = "Dimensions too small"

\* C7 witness: an image of min_dimension x max_dimension was accepted
C7_Witness ==
    /\ DimensionsTested
    /\ data.w = min_dimension
    /\ data.h = max_dimension
    /\ validation = "accepted"

\* the image with every failing unit replaced by one that runs and does not
\* trigger
NotTriggering(im) ==
    [ decoded |-> TRUE,
      size |-> IF "format" \in im.faults THEN <<0, 0>> ELSE im.size,
      edge_mean |-> IF "edge" \in im.faults
                    THEN extreme_sharpness_threshold ELSE im.edge_mean,
      variance |-> IF "smoothness" \in im.faults
                   THEN extreme_smoothness_threshold ELSE im.variance,
      edge_small |-> IF "geometry" \in im.faults THEN <<10, 50>> ELSE im.edge_small,
      exif |-> IF "metadata" \in im.faults THEN <<>> ELSE im.exif,
      stddev |-> IF "color" \in im.faults THEN <<10, 20, 30>> ELSE im.stddev,
      faults |-> {} ]

BreakdownSum(b) == SumSeq([k \in 1..Len(checks) |-> b[checks[k]].score])

\* C8: when a heuristic check, or a sub-check of the artifact check, fails
\* internally, the request still succeeds, the failing (sub-)check adds 0 to
\* the score, and every other check is executed and counted as usual.
C8_FailureIsolated ==
    (Prefiltered /\ img.faults \cap CheckUnits # {}) =>
        /\ checks_run = {checks[k] : k \in 1..Len(checks)}
        /\ \A k \in 1..Len(checks) :
               heuristic_results.scores_breakdown[checks[k]].score
                   = round3(check_func(checks[k], NotTriggering(img)).score)
        /\ heuristic_results.prefilter_score
               = round3(clamp(BreakdownSum(heuristic_results.scores_breakdown)))
        /\ (pc = "done" /\ "response" \notin img.faults) =>
               /\ result.status = "success"
               /\ result.prefilter_score = heuristic_results.prefilter_score

\* C8 witness: edge detection failed on an image that is smooth and has an AI
\* resolution; the request succeeded and counted 0.25 and 0.15
C8_Witness ==
    /\ Succeeded
    /\ img.faults = {"edge"}
    /\ img.edge_mean > extreme_sharpness_threshold
    /\ result.scores_breakdown["artifacts"].score = 2500
    /\ result.scores_breakdown["format"].score = 1500
    /\ result.prefilter_score >= 4000

\* the flag that reports the failure of a unit
FailureFlag(unit) ==
    CASE unit = "edge" -> "Edge detection failed"
      [] unit = "smoothness" -> "Smoothness check failed"
      [] unit = "geometry" -> "Geometry check failed"
      [] unit = "metadata" -> "metadata check failed"
      [] unit = "format" -> "format check failed"
      [] unit = "color" -> "Color analysis failed"

Flagged(unit) ==
    \E k \in 1..Len(heuristic_results.flags) :
        heuristic_results.flags[k] = FailureFlag(unit)

C10_OrderIndependent ==
    /\ (pipeline = "enhanced" /\ pc = "prefilter") =>
           \A c \in checks_run :
               scores_breakdown[c] = prefilter_heuristics(img).scores_breakdown[c]
    /\ Prefiltered =>
           LET ref == prefilter_heuristics(img)
           IN  /\ heuristic_results.prefilter_score = ref.prefilter_score
               /\ heuristic_results.detection_level = ref.detection_level
               /\ heuristic_results.needs_ml_verification = ref.needs_ml_verification
               /\ heuristic_results.scores_breakdown = ref.scores_breakdown

\* C10 witness: the checks ran in another order than the list's (the flags
\* come out in another order) and the request succeeded with a non-zero score
C10_Witness ==
    /\ Succeeded
    /\ result.flags # prefilter_heuristics(img).flags
    /\ result.prefilter_score > 0
    /\ result.scores_breakdown = prefilter_heuristics(img).scores_breakdown

\* C11: analyze_image keeps nothing between calls and never writes to CONFIG:
\* in any sequence of calls, successful or failing, CONFIG keeps its default
\* values and a call on a buffer analysed before returns what the first call
\* on that buffer returned
C11_SameOutputEveryCall ==
    /\ CONFIG = HeuristicConfig
    /\ pc = "done" /\ data \in DOMAIN first_call =>
          /\ result = first_call[data].result
          /\ raised = first_call[data].raised

\* a successful call repeated as the third call of a session, after a call
\* that failed
C11_Witness ==
    /\ calls = 2
    /\ pc = "done"
    /\ data \in DOMAIN first_call
    /\ result.status = "success"
    /\ result.prefilter_score > 0
    /\ \E d \in DOMAIN first_call : first_call[d].result.status = "error"

\* the 512x512 uniform-gray image without EXIF, analysed without internal failure
UniformGray ==
    /\ pipeline = "enhanced"
    /\ pc = "done"
    /\ img \in test_img
    /\ img.faults = {}

InFlags(flag) == \E k \in 1..Len(result.flags) : result.flags[k] = flag

RECURSIVE without_make(_)
without_make(exif) ==
    IF exif = <<>> THEN <<>>
    ELSE (IF TAGS(Head(exif)[1]) = "Make" THEN <<>> ELSE <<Head(exif)>>)
         \o without_make(Tail(exif))

\* the analysed image with its Make tag absent
tag_absent == [img EXCEPT !.exif = without_make(img.exif)]

\* image_detector.analyze_image has returned for an image with readable EXIF
\* whose Make names a recognized camera maker
CameraAnalysed ==
    /\ pipeline = "v05"
    /\ pc = "done"
    /\ ~raised
    /\ "exif" \notin img.faults
    /\ real_camera(img.exif)

\* C13 (as claimed): for an image whose EXIF Make names a recognized camera
\* maker the EXIF check contributes a negative score and is_ai_probability is
\* strictly lower than for the same image with the tag absent, whatever the
\* other checks contribute.
C13_AsClaimed ==
    CameraAnalysed =>
        /\ exif_score(img).score < 0
        /\ result.is_ai_probability < is_ai_probability(tag_absent)

\* C13 (amended): for an image whose EXIF Make names a recognized camera maker
\* the EXIF check contributes -0.30 and is_ai_probability is never higher than
\* for the same image with the tag absent; it is strictly lower exactly when
\* the clamp does not hide the difference, i.e. when the unclamped sum without
\* the tag is above 0 and the unclamped sum with the tag is below 1.
C13_CameraLowersScore ==
    CameraAnalysed =>
        /\ exif_score(img).score = 0 - 3000
        /\ result.is_ai_probability = is_ai_probability(img)
        /\ result.is_ai_probability <= is_ai_probability(tag_absent)
        /\ result.is_ai_probability < is_ai_probability(tag_absent)
               <=> (score_sum_v05(tag_absent) > 0 /\ score_sum_v05(img) < 10000)

\* a camera image whose probability is lowered by the full 0.40 (0.30 relief,
\* and 0.10 for the EXIF left empty without the tag)
C13_Witness ==
    /\ CameraAnalysed
    /\ without_make(img.exif) = <<>>
    /\ result.is_ai_probability + 4000 = is_ai_probability(tag_absent)

\* no check triggers on image im: every statistic that is read stays on the
\* quiet side of its threshold
Quiet(im) ==
    /\ "edge" \in im.faults \/ im.edge_mean <= extreme_sharpness_threshold
    /\ "smoothness" \in im.faults \/ im.variance >= extreme_smoothness_threshold
    /\ "geometry" \in im.faults \/ ~(im.edge_small[1] < 10 /\ im.edge_small[2] > 50)
    /\ "metadata" \in im.faults
          \/ \A k \in 1..Len(software_tags(im.exif)) :
                 first_marker(software_tags(im.exif)[k], 1) = NoValue
    /\ "format" \in im.faults
          \/ /\ im.size \notin known_ai_resolutions
             /\ <<im.size[2], im.size[1]>> \notin known_ai_resolutions
    /\ "color" \in im.faults
          \/ /\ \E i, j \in 1..3 : Abs(im.stddev[i] - im.stddev[j]) >= 3
             /\ im.stddev[1] + im.stddev[2] + im.stddev[3] <= 70 * 3

\* the recommendation text of each tier
RecommendationOf(tier) ==
    CASE tier = "obvious_ai" ->
            "High confidence AI detection - multiple obvious artifacts found"
      [] tier = "suspicious" ->
            "Suspicious patterns detected - ML verification recommended"
      [] tier = "uncertain" ->
            "Inconclusive - ML analysis required for accurate detection"
      [] tier = "likely_real" ->
            "No obvious AI artifacts detected - likely authentic photo"

\* C14: when no heuristic check triggers on a valid image, the extended
\* pipeline returns status success with score 0, tier likely_real, no ML
\* verification and the recommendation of the likely_real tier; the flags
\* list is empty (it holds nothing but failure notices when a check failed
\* internally); and in every successful result the recommendation is the text
\* of the result's tier.
C14_NothingTriggered ==
    /\ ( /\ pipeline = "enhanced"
         /\ pc = "done"
         /\ img.decoded
         /\ "response" \notin img.faults
         /\ Quiet(img) ) =>
            /\ result.status = "success"
            /\ result.prefilter_score = 0
            /\ result.detection_level = "likely_real"
            /\ ~result.needs_ml_verification
            /\ ~result.ml_required
            /\ result.recommendation =
                   "No obvious AI artifacts detected - likely authentic photo"
            /\ img.faults = {} => result.flags = <<>>
            /\ \A k \in 1..Len(result.flags) :
                   \E unit \in img.faults : result.flags[k] = FailureFlag(unit)
    /\ Succeeded => result.recommendation = RecommendationOf(result.detection_level)

\* a valid image with EXIF and no failure, on which no check triggers
C14_Witness ==
    /\ Succeeded
    /\ img.faults = {}
    /\ Quiet(img)
    /\ Len(img.exif) = 4
    /\ result.flags = <<>>
    /\ result.prefilter_score = 0

\* validate_image_data accepted the buffer and the full decode in load_image failed
LoadFailed ==
    /\ pipeline = "enhanced"
    /\ pc = "done"
    /\ validation = "accepted"
    /\ load_image(data).err # NoValue

\* C15 (as claimed): when validate_image_data accepts the buffer but the full
\* decode in load_image fails, the request ends with status error and
\* error_type processing_error.
C15_AsClaimed ==
    LoadFailed =>
        /\ result.status = "error"
        /\ result.error_type = "processing_error"

\* C15 (amended): when validate_image_data accepts the buffer but the full
\* decode in load_image fails, the request ends, without running any check,
\* with status error, error_type validation_error and a message that starts
\* with "Failed to load image"; processing_error is returned only after the
\* image has been loaded.
C15_LoadFailureIsValidationError ==
    /\ LoadFailed =>
          /\ result = ErrorResult("validation_error", "Failed to load image")
          /\ ~raised
          /\ img = NoImage
          /\ checks_run = {}
    /\ ( /\ pipeline = "enhanced"
         /\ pc = "done"
         /\ result.status = "error"
         /\ result.error_type = "processing_error" ) => img.decoded

\* an image file of admissible size and dimensions whose pixel data is truncated
C15_Witness ==
    /\ LoadFailed
    /\ data.header
    /\ ~data.body
    /\ data.len = MaxBytes
    /\ data.w = 512 /\ data.h = 512
    /\ result.error_type = "validation_error"

\* C16 (as claimed): the analyze_image called by the /detect/image route
\* (image_detector.analyze_image) maps every failure to a structured result:
\* for an empty or undecodable buffer and for a failure inside a heuristic
\* check it returns a result, and no exception escapes to the caller.
C16_AsClaimed ==
    (pipeline = "v05" /\ pc = "done") =>
        /\ ~raised
        /\ result # Pending

=============================================================================
